---------------------------- MODULE Spec2Model ----------------------------
(***************************************************************************)
(* Model of src/trivia-quiz-app.py: the question extractor                 *)
(* (QuestionGenerator), the ledger (TriviaQuizDatabase: tables questions   *)
(* and quiz_history) and the quiz handlers of TriviaQuizApp                *)
(* (select_source_file, generate_quiz, submit_answers,                     *)
(* show_challenging_questions).                                            *)
(*                                                                         *)
(* Text is a sequence of one-character strings.  A question is the text    *)
(* the f-string renders.  The Qt widgets that only hold user input (the    *)
(* spin box, the answer box, the file dialog) are the environment: their   *)
(* value at the time of the click is the handler's input.                  *)
(***************************************************************************)
EXTENDS Integers, Sequences, FiniteSets, TLC

(***************************************************************************)
(* Bounds of the model.                                                    *)
(***************************************************************************)
MaxCount == 2        \* spin box values explored: 1..MaxCount
MaxAnswers == 2      \* lines typed in the answer box
MaxHistory == 1      \* rows of quiz_history explored (one more in SpecLong)
MaxAttempts == 2     \* total_attempts explored by direct update calls
MaxLimit == 3        \* limits explored for get_challenging_questions
MaxSentences == 11   \* sentences of a text given to the extractor

(***************************************************************************)
(* Program constants.                                                      *)
(***************************************************************************)
WhatMinWords == 4    \* len(sentence.split()) > 4
WhyMinWords == 5     \* len(sentence.split()) > 5  (Why)
HowMinWords == 5     \* len(sentence.split()) > 5  (How)
MaxPerKind == 10     \* [:10]
DefaultLimit == 5    \* get_challenging_questions(self, limit=5)

(***************************************************************************)
(* Characters.                                                             *)
(***************************************************************************)
Upper == {"A", "B", "C", "D", "E", "F", "G", "H", "I", "J", "K", "L", "M",
          "N", "O", "P", "Q", "R", "S", "T", "U", "V", "W", "X", "Y", "Z"}
Terminators == {".", "!", "?"}
Whitespace == {" ", "\n", "\t"}

Min(a, b) == IF a < b THEN a ELSE b

(***************************************************************************)
(* re.findall(r'[A-Z][^.!?]*', content): leftmost non-overlapping matches, *)
(* each from an uppercase letter, greedy up to the next terminator.        *)
(***************************************************************************)
RECURSIVE MatchEnd(_, _)
MatchEnd(content, j) ==
    IF j > Len(content) \/ content[j] \in Terminators
    THEN j
    ELSE MatchEnd(content, j + 1)

RECURSIVE FindAll(_, _)
FindAll(content, i) ==
    IF i > Len(content) THEN <<>>
    ELSE IF content[i] \notin Upper THEN FindAll(content, i + 1)
    ELSE LET e == MatchEnd(content, i + 1)
         IN  <<SubSeq(content, i, e - 1)>> \o FindAll(content, e)

\* len(sentence.split()): the number of maximal runs of non-whitespace
WordCount(sentence) ==
    Cardinality({i \in 1..Len(sentence) :
                    /\ sentence[i] \notin Whitespace
                    /\ (i = 1 \/ sentence[i - 1] \in Whitespace)})

\* the three f-strings
WhatQuestion(sentence) == <<"W", "h", "a", "t", " ">> \o sentence \o <<"?">>
WhyQuestion(sentence) ==
    <<"W", "h", "y", " ", "i", "s", " ">> \o sentence \o <<"?">>
HowQuestion(sentence) ==
    <<"H", "o", "w", " ", "d", "o", "e", "s", " ">> \o sentence \o <<"?">>

\* Filter keeping the sentences of exactly minWords words as well
RECURSIVE Filter_atleast(_, _)
Filter_atleast(seq, minWords) ==
    IF seq = <<>> THEN <<>>
    ELSE IF WordCount(Head(seq)) >= minWords
         THEN <<Head(seq)>> \o Filter_atleast(Tail(seq), minWords)
         ELSE Filter_atleast(Tail(seq), minWords)

\* [x for x in seq if P(x)]
RECURSIVE Filter(_, _)
Filter(seq, minWords) ==
    IF seq = <<>> THEN <<>>
    ELSE IF WordCount(Head(seq)) > minWords
         THEN <<Head(seq)>> \o Filter(Tail(seq), minWords)
         ELSE Filter(Tail(seq), minWords)

\* Take without the slice
Take_all(seq, n) == seq

\* seq[:n]
Take(seq, n) == SubSeq(seq, 1, Min(n, Len(seq)))

what_questions(content) ==
    LET s == Take(Filter(FindAll(content, 1), WhatMinWords), MaxPerKind)
    IN  [i \in 1..Len(s) |-> WhatQuestion(s[i])]

why_questions(content) ==
    LET s == Take(Filter(FindAll(content, 1), WhyMinWords), MaxPerKind)
    IN  [i \in 1..Len(s) |-> WhyQuestion(s[i])]

how_questions(content) ==
    LET s == Take(Filter(FindAll(content, 1), HowMinWords), MaxPerKind)
    IN  [i \in 1..Len(s) |-> HowQuestion(s[i])]

\* set(questions): the list of the three kinds, as a set
generate_trivia_questions(content) ==
    LET qs == what_questions(content) \o why_questions(content)
                \o how_questions(content)
    IN  {qs[i] : i \in 1..Len(qs)}


(***************************************************************************)
(* The files the user can pick.  Their contents are read by open() in      *)
(* generate_trivia_questions, which raises when the file cannot be read    *)
(* (any file may have been removed since it was picked).                   *)
(***************************************************************************)
None == "None"
Files == {"a.txt", "b.txt"}
FileContent(f) ==
    CASE f = "a.txt" ->
           <<"A", " ", "b", " ", "c", " ", "d", " ", "e", ".", " ",
             "F", " ", "g", " ", "h", " ", "i", " ", "j", ".">>
      [] f = "b.txt" ->
           <<"N", "o", " ", "b", " ", "c", " ", "d", ".", " ", "x", " ", "y">>
      [] OTHER -> <<>>

Candidates(f) == generate_trivia_questions(FileContent(f))
AllCandidates == UNION {Candidates(f) : f \in Files}

(***************************************************************************)
(* State.                                                                  *)
(*   questions           table questions, rows in rowid (insertion) order  *)
(*   quiz_history        table quiz_history, rows in rowid order           *)
(*   current_questions   self.current_questions                            *)
(*   current_source_file self.current_source_file                          *)
(*   err                 how the last call ended: "none", the "warning"    *)
(*                       box of generate_quiz, or the "IOError" of open()  *)
(*   session_file, session_count  the file and the spin box value the      *)
(*                       current questions were generated with             *)
(*   session_active      a quiz was generated and not yet submitted        *)
(* The last three record what generate_quiz was called with; the program   *)
(* keeps no such record.                                                   *)
(*   content, extracted, extract_pc  a call of                             *)
(*                       QuestionGenerator.generate_trivia_questions on    *)
(*                       its own: the text file.read() returned, the set   *)
(*                       the call returned, and where the call is ("idle": *)
(*                       no call, "reading": called, "done": returned)     *)
(***************************************************************************)
VARIABLES questions, quiz_history, current_questions, current_source_file,
          err, session_file, session_count, session_active,
          content, extracted, extract_pc

vars == <<questions, quiz_history, current_questions, current_source_file,
          err, session_file, session_count, session_active,
          content, extracted, extract_pc>>

store == <<questions, quiz_history>>
app == <<current_questions, current_source_file>>
session == <<session_file, session_count, session_active>>
extraction == <<content, extracted, extract_pc>>

(***************************************************************************)
(* TriviaQuizDatabase                                                      *)
(***************************************************************************)
HasQuestion(qs, question) == \E i \in 1..Len(qs) : qs[i].question = question

Row(qs, question) ==
    qs[CHOOSE i \in 1..Len(qs) : qs[i].question = question]

\* insert_or_update_question as INSERT OR REPLACE: a row of the same text
\* is deleted and the new row appended
RECURSIVE WithoutQuestion(_, _)
WithoutQuestion(qs, question) ==
    IF qs = <<>> THEN <<>>
    ELSE IF Head(qs).question = question
         THEN WithoutQuestion(Tail(qs), question)
         ELSE <<Head(qs)>> \o WithoutQuestion(Tail(qs), question)

insert_or_update_question_replace(qs, question, source_file) ==
    Append(WithoutQuestion(qs, question),
           [question |-> question, source_file |-> source_file,
            total_attempts |-> 0, correct_attempts |-> 0])

\* INSERT OR IGNORE INTO questions (question, source_file): question is
\* UNIQUE, the counters take their DEFAULT 0
insert_or_update_question(qs, question, source_file) ==
    IF HasQuestion(qs, question)
    THEN qs
    ELSE Append(qs, [question |-> question, source_file |-> source_file,
                     total_attempts |-> 0, correct_attempts |-> 0])

\* INSERT INTO quiz_history (total_questions, correct_questions, source_file)
record_quiz_result(h, total_questions, correct_questions, source_file) ==
    Append(h, [total_questions |-> total_questions,
               correct_questions |-> correct_questions,
               source_file |-> source_file])

\* update_question_stats with the two increments exchanged
update_question_stats_swapped(qs, question, is_correct) ==
    [i \in 1..Len(qs) |->
        IF qs[i].question = question
        THEN [qs[i] EXCEPT !.total_attempts =
                               @ + (IF is_correct THEN 1 ELSE 0),
                           !.correct_attempts = @ + 1]
        ELSE qs[i]]

\* update_question_stats storing the increment in place of the sum
update_question_stats_overwrite(qs, question, is_correct) ==
    [i \in 1..Len(qs) |->
        IF qs[i].question = question
        THEN [qs[i] EXCEPT !.total_attempts = @ + 1,
                           !.correct_attempts =
                               IF is_correct THEN 1 ELSE 0]
        ELSE qs[i]]

\* UPDATE questions SET total_attempts = total_attempts + 1,
\*   correct_attempts = correct_attempts + ? WHERE question = ?
update_question_stats(qs, question, is_correct) ==
    [i \in 1..Len(qs) |->
        IF qs[i].question = question
        THEN [qs[i] EXCEPT !.total_attempts = @ + 1,
                           !.correct_attempts =
                               @ + (IF is_correct THEN 1 ELSE 0)]
        ELSE qs[i]]

\* correct_attempts * 1.0 / total_attempts of row a below that of row b
\* (both have total_attempts > 0)
RateLess(a, b) ==
    a.correct_attempts * b.total_attempts
        < b.correct_attempts * a.total_attempts

RateEq(a, b) ==
    a.correct_attempts * b.total_attempts
        = b.correct_attempts * a.total_attempts

\* Attempted without the WHERE clause
Attempted_all(qs) == qs

\* WHERE total_attempts > 0, in scan (rowid) order
RECURSIVE Attempted(_)
Attempted(qs) ==
    IF qs = <<>> THEN <<>>
    ELSE IF Head(qs).total_attempts > 0
         THEN <<Head(qs)>> \o Attempted(Tail(qs))
         ELSE Attempted(Tail(qs))

\* ORDER BY rate ASC: SQL leaves the order of rows with equal keys open;
\* first[i] says whether row i goes before the rows of equal rate already
\* sorted or after them.
RECURSIVE InsertByRate(_, _, _)
InsertByRate(sorted, row, before) ==
    IF sorted = <<>> THEN <<row>>
    ELSE IF RateLess(row, Head(sorted))
              \/ (before /\ RateEq(row, Head(sorted)))
         THEN <<row>> \o sorted
         ELSE <<Head(sorted)>> \o InsertByRate(Tail(sorted), row, before)

RECURSIVE OrderByRate(_, _)
OrderByRate(rows, first) ==
    IF rows = <<>> THEN <<>>
    ELSE LET n == Len(rows)
         IN  InsertByRate(OrderByRate(SubSeq(rows, 1, n - 1), first),
                          rows[n], first[n])

TieChoices(qs) == [1..Len(qs) -> BOOLEAN]

\* SELECT question ... ORDER BY ... LIMIT ?  (a negative LIMIT is no limit)
get_challenging_questions(qs, limit, first) ==
    LET sorted == OrderByRate(Attempted(qs), first)
        rows == IF limit < 0 THEN sorted ELSE Take(sorted, limit)
    IN  [i \in 1..Len(rows) |-> rows[i].question]


(***************************************************************************)
(* TriviaQuizApp                                                           *)
(***************************************************************************)
\* Samples drawing with replacement
Samples_repeat(S, k) == [1..k -> S]

\* random.sample(questions, k): k distinct members, in any order
Samples(S, k) ==
    {s \in [1..k -> S] : \A i, j \in 1..k : i # j => s[i] # s[j]}

\* what the answer box can hold: 1..MaxAnswers lines, each of them empty,
\* blank, or an answer after a space
AnswerLines == {<<>>, <<" ">>, <<" ", "y">>}

RECURSIVE JoinLines(_)
JoinLines(lines) ==
    IF Len(lines) = 1 THEN lines[1]
    ELSE lines[1] \o <<"\n">> \o JoinLines(Tail(lines))

AnswerTexts ==
    {JoinLines(lines) :
        lines \in UNION {[1..n -> AnswerLines] : n \in 1..MaxAnswers}}

\* text.split('\n'): never empty, '' gives ['']
RECURSIVE Split(_)
Split(text) ==
    IF \A i \in 1..Len(text) : text[i] # "\n"
    THEN <<text>>
    ELSE LET i == CHOOSE k \in 1..Len(text) :
                      /\ text[k] = "\n"
                      /\ \A m \in 1..(k - 1) : text[m] # "\n"
         IN  <<SubSeq(text, 1, i - 1)>>
                 \o Split(SubSeq(text, i + 1, Len(text)))

\* answer.strip()
Strip(answer) ==
    LET keep == {i \in 1..Len(answer) : answer[i] \notin Whitespace}
    IN  IF keep = {} THEN <<>>
        ELSE SubSeq(answer,
                    CHOOSE i \in keep : \A m \in keep : i <= m,
                    CHOOSE i \in keep : \A m \in keep : m <= i)

\* IsCorrect with the comparison off by one
IsCorrect_long(user_answer) == Len(Strip(user_answer)) > 1

\* IsCorrect without the strip()
IsCorrect_unstripped(user_answer) == Len(user_answer) > 0

\* is_correct = len(user_answer.strip()) > 0
IsCorrect(user_answer) == Len(Strip(user_answer)) > 0

\* zip(self.current_questions, user_answers): the number of pairs
Pairs(cq, user_answers) == Min(Len(cq), Len(user_answers))

\* the loop of submit_answers over the first k pairs: the table after it
RECURSIVE ScoreLoop(_, _, _, _)
ScoreLoop(qs, cq, user_answers, k) ==
    IF k = 0 THEN qs
    ELSE update_question_stats(ScoreLoop(qs, cq, user_answers, k - 1),
                               cq[k], IsCorrect(user_answers[k]))

\* CorrectCount counting every pair
CorrectCount_pairs(cq, user_answers) == Pairs(cq, user_answers)

\* correct_count after the loop
CorrectCount(cq, user_answers) ==
    Cardinality({i \in 1..Pairs(cq, user_answers) :
                    IsCorrect(user_answers[i])})

\* generate_quiz without the loop storing the questions
StoreLoop_none(qs, cq, source_file) == qs

\* the loop of generate_quiz storing the questions
RECURSIVE StoreLoop(_, _, _)
StoreLoop(qs, cq, source_file) ==
    IF cq = <<>> THEN qs
    ELSE StoreLoop(insert_or_update_question(qs, Head(cq), source_file),
                   Tail(cq), source_file)

Init ==
    /\ questions = <<>>
    /\ quiz_history = <<>>
    /\ current_questions = <<>>
    /\ current_source_file = None
    /\ err = "none"
    /\ session_file = None
    /\ session_count = 0
    /\ session_active = FALSE
    /\ content = <<>>
    /\ extracted = {}
    /\ extract_pc = "idle"

\* the dialog returns a path, or '' when cancelled
select_source_file(file_path) ==
    /\ current_source_file' =
           IF file_path # "" THEN file_path ELSE current_source_file
    /\ err' = "none"
    /\ UNCHANGED <<store, current_questions, session, extraction>>

\* no file selected: the warning, and nothing else
generate_quiz_no_file(num_questions) ==
    /\ current_source_file = None
    /\ err' = "warning"
    /\ UNCHANGED <<store, app, session, extraction>>

\* generate_quiz_unreadable with the question list emptied before open()
generate_quiz_unreadable_clears(num_questions) ==
    /\ current_source_file # None
    /\ current_questions' = <<>>
    /\ err' = "IOError"
    /\ UNCHANGED <<store, current_source_file, session, extraction>>

\* open() raises: the handler ends there
generate_quiz_unreadable(num_questions) ==
    /\ current_source_file # None
    /\ err' = "IOError"
    /\ UNCHANGED <<store, app, session, extraction>>

generate_quiz_ok(num_questions) ==
    /\ current_source_file # None
    /\ LET candidates == Candidates(current_source_file)
           k == Min(num_questions, Cardinality(candidates))
       IN  \E sample \in Samples(candidates, k) :
             /\ current_questions' = sample
             /\ questions' = StoreLoop(questions, sample, current_source_file)
    /\ err' = "none"
    /\ session_file' = current_source_file
    /\ session_count' = num_questions
    /\ session_active' = TRUE
    /\ UNCHANGED <<quiz_history, current_source_file, extraction>>

generate_quiz(num_questions) ==
    \/ generate_quiz_no_file(num_questions)
    \/ generate_quiz_unreadable(num_questions)
    \/ generate_quiz_ok(num_questions)

submit_answers(text) ==
    /\ LET user_answers == Split(text)
           k == Pairs(current_questions, user_answers)
           correct_count == CorrectCount(current_questions, user_answers)
       IN  /\ questions' =
                  ScoreLoop(questions, current_questions, user_answers, k)
           /\ quiz_history' =
                  record_quiz_result(quiz_history, Len(current_questions),
                                     correct_count, current_source_file)
    /\ err' = "none"
    /\ session_active' = FALSE
    /\ UNCHANGED <<app, session_file, session_count, extraction>>

\* a query: the dialog shows ShownChallenging, nothing is written
ShownChallenging(first) ==
    get_challenging_questions(questions, DefaultLimit, first)

show_challenging_questions ==
    /\ err' = "none"
    /\ UNCHANGED <<store, app, session, extraction>>

(***************************************************************************)
(* Calls made on the TriviaQuizDatabase directly.                          *)
(***************************************************************************)
QuestionTexts == AllCandidates
FileArgs == {"a.txt", "b.txt"}
TotalArgs == 0..1
CorrectArgs == -1..2
RecordFileArgs == {"a.txt"}

InsertCall(question, source_file) ==
    /\ questions' = insert_or_update_question(questions, question, source_file)
    /\ err' = "none"
    /\ UNCHANGED <<quiz_history, app, session, extraction>>

UpdateCall(question, is_correct) ==
    /\ \A i \in 1..Len(questions) :
          questions[i].question = question
              => questions[i].total_attempts < MaxAttempts
    /\ questions' = update_question_stats(questions, question, is_correct)
    /\ err' = "none"
    /\ UNCHANGED <<quiz_history, app, session, extraction>>

RecordCall(total_questions, correct_questions, source_file) ==
    /\ Len(quiz_history) < MaxHistory
    /\ quiz_history' = record_quiz_result(quiz_history, total_questions,
                                          correct_questions, source_file)
    /\ err' = "none"
    /\ UNCHANGED <<questions, app, session, extraction>>

\* a query: it returns get_challenging_questions(questions, limit, first)
ChallengingCall(limit) ==
    /\ err' = "none"
    /\ UNCHANGED <<store, app, session, extraction>>

\* the handlers, with at most maxHistory rows of quiz_history explored
Handlers(maxHistory) ==
    \/ \E file_path \in Files \cup {""} : select_source_file(file_path)
    \/ \E num_questions \in 1..MaxCount : generate_quiz(num_questions)
    \/ /\ Len(quiz_history) < maxHistory
       /\ \E text \in AnswerTexts : submit_answers(text)
    \/ show_challenging_questions

NextApp == Handlers(MaxHistory)
NextLong == Handlers(MaxHistory + 1)

NextStore ==
    \/ \E question \in QuestionTexts, source_file \in FileArgs :
          InsertCall(question, source_file)
    \/ \E question \in QuestionTexts, is_correct \in BOOLEAN :
          UpdateCall(question, is_correct)
    \/ \E total_questions \in TotalArgs, correct_questions \in CorrectArgs,
          source_file \in RecordFileArgs :
          RecordCall(total_questions, correct_questions, source_file)
    \/ \E limit \in 0..MaxLimit : ChallengingCall(limit)

Next == NextApp \/ NextStore

(***************************************************************************)
(* Calls of QuestionGenerator.generate_trivia_questions on its own.  The   *)
(* file holds a text of up to MaxSentences sentences after an optional     *)
(* lower-case lead: sentence i starts with the i-th capital, its words are *)
(* separated by sep, its second word is capitalised, the number of its     *)
(* words follows a cycle of three counts, and it ends with ".", "!" or "?" *)
(* in turn (the last one only if closed).                                  *)
(***************************************************************************)
Capitals == <<"A", "B", "C", "D", "E", "F", "G", "H", "I", "J", "K", "L",
              "M", "N", "O", "P">>
WordCounts == {1, 4, 5, 6}
Separators == {" ", "\t"}
Leads == {<<>>, <<"x", " ", "y", ".", " ">>}

\* words 2..w of a sentence, each after a separator
RECURSIVE MoreWords(_, _)
MoreWords(w, sep) ==
    IF w <= 1 THEN <<>>
    ELSE MoreWords(w - 1, sep) \o <<sep, IF w = 2 THEN "Q" ELSE "b">>

SentenceText(i, w, sep) == <<Capitals[i]>> \o MoreWords(w, sep)

EndOf(i) == <<".", "!", "?">>[(i % 3) + 1]

RECURSIVE TextOf(_, _, _, _)
TextOf(n, cycle, sep, closed) ==
    IF n = 0 THEN <<>>
    ELSE (IF n = 1 THEN <<>>
          ELSE TextOf(n - 1, cycle, sep, TRUE) \o <<" ">>)
         \o SentenceText(n, cycle[((n - 1) % 3) + 1], sep)
         \o (IF closed THEN <<EndOf(n)>> ELSE <<>>)

Contents ==
    {lead \o TextOf(n, cycle, sep, closed) :
        lead \in Leads, n \in 0..MaxSentences,
        cycle \in [1..3 -> WordCounts], sep \in Separators,
        closed \in BOOLEAN}

\* the call is made on a file that holds one of the texts
InitExtract ==
    /\ questions = <<>>
    /\ quiz_history = <<>>
    /\ current_questions = <<>>
    /\ current_source_file = None
    /\ err = "none"
    /\ session_file = None
    /\ session_count = 0
    /\ session_active = FALSE
    /\ content \in Contents
    /\ extracted = {}
    /\ extract_pc = "reading"

\* generate_trivia_questions returns
ExtractCall ==
    /\ extract_pc = "reading"
    /\ extracted' = generate_trivia_questions(content)
    /\ extract_pc' = "done"
    /\ err' = "none"
    /\ UNCHANGED <<store, app, session, content>>

NextExtract == ExtractCall

Spec == Init /\ [][Next]_vars
SpecApp == Init /\ [][NextApp]_vars
SpecLong == Init /\ [][NextLong]_vars
SpecStore == Init /\ [][NextStore]_vars
SpecExtract == InitExtract /\ [][NextExtract]_vars


(***************************************************************************)
(* Properties.                                                             *)
(***************************************************************************)
\* an answer with a character that is not whitespace
NonBlank(answer) == \E i \in 1..Len(answer) : answer[i] \notin Whitespace

LastRow(h) == h[Len(h)]

\* C1: every row of questions has 0 <= correct_attempts <= total_attempts
\* after any sequence of database calls (the handlers write the table through
\* these calls only; the formula is an invariant of Spec as well).
C1_CountersOrdered ==
    \A i \in 1..Len(questions) :
        /\ 0 <= questions[i].correct_attempts
        /\ questions[i].correct_attempts <= questions[i].total_attempts

\* C1 witness: a question answered twice, once correctly
C1_Witness ==
    \E i \in 1..Len(questions) :
        /\ questions[i].total_attempts = 2
        /\ questions[i].correct_attempts = 1

\* C2 (as claimed): submit_answers with no generated, unsubmitted quiz ends
\* with IllegalState and writes neither table.
C2_ScoreWithoutSessionFails ==
    [][\A text \in AnswerTexts :
          (~session_active /\ submit_answers(text))
              => (err' = "IllegalState" /\ UNCHANGED store)]_vars

\* C3 (as claimed): once a quiz has been submitted, a second submit without
\* a generate in between writes neither table.
C3_SecondScoreWritesNothing ==
    [][(session_file # None /\ ~session_active
            /\ quiz_history' # quiz_history)
          => \A text \in AnswerTexts :
                submit_answers(text)
                    => (questions' = questions
                          /\ Len(quiz_history') = Len(quiz_history))]_vars

\* C4 (as claimed): in every state, update_question_stats on a text that
\* is not in the table can only end with NotFound and both tables as they
\* were: no such call completes otherwise.
C4_UpdateOfUnknownFails ==
    \A question \in QuestionTexts, is_correct \in BOOLEAN :
        ~HasQuestion(questions, question)
            => ~ENABLED (/\ UpdateCall(question, is_correct)
                         /\ ~(err' = "NotFound" /\ UNCHANGED store))

\* C5 (as claimed): record_quiz_result with correct > total or correct < 0
\* ends with InvalidArgument and appends nothing; otherwise it appends
\* exactly the row it was given.
C5_RecordChecksItsArguments ==
    [][\A total_questions \in TotalArgs, correct_questions \in CorrectArgs,
          source_file \in RecordFileArgs :
          RecordCall(total_questions, correct_questions, source_file)
              => IF correct_questions > total_questions
                     \/ correct_questions < 0
                 THEN err' = "InvalidArgument"
                        /\ quiz_history' = quiz_history
                 ELSE quiz_history' =
                        Append(quiz_history,
                               [total_questions |-> total_questions,
                                correct_questions |-> correct_questions,
                                source_file |-> source_file])]_vars

\* C6: insert_or_update_question on a text already in the table changes
\* nothing (whatever the row's counters and whichever file the call names)
\* and raises nothing; on a text not in the table it appends one row with
\* the given file and both counters 0; no text is ever in two rows.
C6_Upsert ==
    [][\A question \in QuestionTexts, source_file \in FileArgs :
          InsertCall(question, source_file)
              => /\ err' = "none"
                 /\ IF \E i \in 1..Len(questions) :
                          questions[i].question = question
                    THEN questions' = questions
                    ELSE /\ Len(questions') = Len(questions) + 1
                         /\ SubSeq(questions', 1, Len(questions)) = questions
                         /\ LastRow(questions').question = question
                         /\ LastRow(questions').source_file = source_file
                         /\ LastRow(questions').total_attempts = 0
                         /\ LastRow(questions').correct_attempts = 0
                 /\ \A i, j \in 1..Len(questions') :
                       questions'[i].question = questions'[j].question
                           => i = j]_vars

\* C6 witness: two rows from two files, the first with attempts on it (a
\* state in which an insert of the first text naming b.txt is the claim's
\* no-op case, and which the inserts of both cases led to)
C6_Witness ==
    /\ Len(questions) = 2
    /\ questions[1].source_file = "a.txt"
    /\ questions[1].total_attempts = 2
    /\ questions[1].correct_attempts = 1
    /\ questions[2].source_file = "b.txt"

\* the row a submit appends when every paired answer counts as correct
SessionSize == Min(session_count, Cardinality(Candidates(session_file)))

\* C7 (as claimed): a submit that follows a generate, with every answer
\* non-blank, records correct = total = min(n, number of candidates).
C7_RoundTripAsClaimed ==
    [][(session_active /\ Len(quiz_history') = Len(quiz_history) + 1)
          => \A text \in AnswerTexts :
                (submit_answers(text)
                    /\ \A i \in 1..Len(Split(text)) : NonBlank(Split(text)[i]))
                    => /\ LastRow(quiz_history').correct_questions
                            = LastRow(quiz_history').total_questions
                       /\ LastRow(quiz_history').total_questions
                            = SessionSize]_vars

\* C7 (amended): the same, for a submit that gives at least as many answers
\* as the quiz has questions.
C7_RoundTrip ==
    [][(session_active /\ Len(quiz_history') = Len(quiz_history) + 1)
          => \A text \in AnswerTexts :
                (submit_answers(text)
                    /\ Len(Split(text)) >= Len(current_questions)
                    /\ \A i \in 1..Len(Split(text)) : NonBlank(Split(text)[i]))
                    => /\ LastRow(quiz_history').correct_questions
                            = LastRow(quiz_history').total_questions
                       /\ LastRow(quiz_history').total_questions
                            = SessionSize]_vars

\* C7 witness: a quiz of two questions generated from a.txt with the spin
\* box at 2 and submitted with both answered
C7_Witness ==
    /\ session_count = 2
    /\ session_file = "a.txt"
    /\ ~session_active
    /\ Len(current_questions) = 2
    /\ quiz_history # <<>>
    /\ LastRow(quiz_history).total_questions = 2
    /\ LastRow(quiz_history).correct_questions = 2

\* the position of a question among the first k current questions, or 0
PairedAt(question, k) ==
    IF \E j \in 1..k : current_questions[j] = question
    THEN CHOOSE j \in 1..k : current_questions[j] = question
    ELSE 0

\* C8: a submit changes the counters of exactly the first
\* k = min(questions of the quiz, answers) questions of the quiz:
\* total_attempts + 1, and correct_attempts + 1 iff the paired answer is
\* non-blank; every other row, and every text and source_file, stays.
C8_ScoreFrame ==
    [][(Len(quiz_history') = Len(quiz_history) + 1)
          => \A text \in AnswerTexts :
                submit_answers(text)
                    => LET answers == Split(text)
                           k == Min(Len(current_questions), Len(answers))
                       IN  /\ Len(questions') = Len(questions)
                           /\ \A j \in 1..k :
                                 \E i \in 1..Len(questions) :
                                    questions[i].question
                                        = current_questions[j]
                           /\ \A i \in 1..Len(questions) :
                                LET j == PairedAt(questions[i].question, k)
                                    dt == IF j = 0 THEN 0 ELSE 1
                                    dc == IF j # 0 /\ NonBlank(answers[j])
                                          THEN 1 ELSE 0
                                IN  questions'[i] =
                                      [question |-> questions[i].question,
                                       source_file |->
                                           questions[i].source_file,
                                       total_attempts |->
                                           questions[i].total_attempts + dt,
                                       correct_attempts |->
                                           questions[i].correct_attempts
                                               + dc]]_vars

\* C8 witness: a quiz of two questions submitted with one answer: the first
\* question has an attempt, the second has none
C8_Witness ==
    /\ Len(current_questions) = 2
    /\ Len(quiz_history) = 1
    /\ HasQuestion(questions, current_questions[1])
    /\ HasQuestion(questions, current_questions[2])
    /\ Row(questions, current_questions[1]).total_attempts = 1
    /\ Row(questions, current_questions[2]).total_attempts = 0

\* C9 (as claimed): a submit of a generated quiz appends exactly one row:
\* the number of questions of the quiz, the number of paired non-blank
\* answers, and the file the quiz was generated from.
C9_SessionRecord ==
    [][(session_active /\ Len(quiz_history') = Len(quiz_history) + 1)
          => \A text \in AnswerTexts :
                submit_answers(text)
                    => LET answers == Split(text)
                           k == Min(Len(current_questions), Len(answers))
                       IN  quiz_history' =
                             Append(quiz_history,
                               [total_questions |-> Len(current_questions),
                                correct_questions |->
                                    Cardinality({j \in 1..k :
                                                   NonBlank(answers[j])}),
                                source_file |-> session_file])]_vars

\* the rows a query may return, as a set of positions of questions
AttemptedRows == {i \in 1..Len(questions) : questions[i].total_attempts > 0}

RowOf(question) ==
    CHOOSE i \in 1..Len(questions) : questions[i].question = question

\* C10: for every limit >= 0, get_challenging_questions returns
\* min(limit, number of attempted questions) distinct texts, each of an
\* attempted question, in non-decreasing order of
\* correct_attempts / total_attempts, and no attempted question left out has
\* a lower rate than one returned.
C10_Challenging ==
    \A limit \in 0..MaxLimit, first \in TieChoices(questions) :
        LET r == get_challenging_questions(questions, limit, first)
            returned == {r[i] : i \in 1..Len(r)}
        IN  /\ Len(r) = Min(limit, Cardinality(AttemptedRows))
            /\ Cardinality(returned) = Len(r)
            /\ \A i \in 1..Len(r) :
                  /\ HasQuestion(questions, r[i])
                  /\ RowOf(r[i]) \in AttemptedRows
            /\ \A i, j \in 1..Len(r) :
                  i < j =>
                    questions[RowOf(r[i])].correct_attempts
                          * questions[RowOf(r[j])].total_attempts
                      <= questions[RowOf(r[j])].correct_attempts
                          * questions[RowOf(r[i])].total_attempts
            /\ \A a \in AttemptedRows, i \in 1..Len(r) :
                  questions[a].question \notin returned =>
                    questions[RowOf(r[i])].correct_attempts
                          * questions[a].total_attempts
                      <= questions[a].correct_attempts
                          * questions[RowOf(r[i])].total_attempts

\* C10 witness: two attempted questions, the later one with the lower rate,
\* so that a limit of 1 returns the second row and leaves the first out
C10_Witness ==
    /\ Len(questions) = 2
    /\ questions[1].total_attempts = 2
    /\ questions[1].correct_attempts = 1
    /\ questions[2].total_attempts = 1
    /\ questions[2].correct_attempts = 0
    /\ \A first \in TieChoices(questions) :
          get_challenging_questions(questions, 1, first)
              = <<questions[2].question>>

C12_Generate ==
    [][\A num_questions \in 1..MaxCount :
          generate_quiz_ok(num_questions)
              => LET candidates == Candidates(current_source_file)
                     cq == current_questions'
                 IN  /\ err' = "none"
                     /\ Len(cq) = Min(num_questions, Cardinality(candidates))
                     /\ \A i, j \in 1..Len(cq) : i # j => cq[i] # cq[j]
                     /\ \A i \in 1..Len(cq) :
                           /\ cq[i] \in candidates
                           /\ HasQuestion(questions', cq[i])
                     /\ Len(questions') >= Len(questions)
                     /\ SubSeq(questions', 1, Len(questions)) = questions
                     /\ \A m \in (Len(questions) + 1)..Len(questions') :
                           /\ questions'[m].total_attempts = 0
                           /\ questions'[m].correct_attempts = 0
                           /\ questions'[m].source_file = current_source_file
                           /\ ~HasQuestion(questions, questions'[m].question)
                           /\ \E i \in 1..Len(cq) :
                                 cq[i] = questions'[m].question]_vars

\* C12 witness: one of the two candidates of a.txt sampled; the table holds
\* that question and not the other candidate
C12_Witness ==
    /\ session_active
    /\ session_file = "a.txt"
    /\ session_count = 1
    /\ quiz_history = <<>>
    /\ Len(current_questions) = 1
    /\ Len(questions) = 1
    /\ questions[1].question = current_questions[1]
    /\ questions[1].source_file = "a.txt"

\* the questions of the current quiz, as a set
CurrentSet == {current_questions[j] : j \in 1..Len(current_questions)}

\* a generated quiz replaced one that was never submitted: nothing was ever
\* submitted, and the table holds a question of an earlier generate_quiz
\* that is not in the current quiz
ReplacedUnscored ==
    /\ session_active
    /\ quiz_history = <<>>
    /\ \E i \in 1..Len(questions) : questions[i].question \notin CurrentSet

\* C13 (as claimed): the submit that follows a generate_quiz which replaced
\* an unsubmitted quiz pairs the answers with the questions of the new quiz
\* only (all of them candidates of the file it was generated from), records
\* the size and the file of the new quiz, and leaves the rows of the
\* questions that are not in the new quiz as they were.
C13_ReplacedSession ==
    [][(ReplacedUnscored /\ Len(quiz_history') = 1)
          => \A text \in AnswerTexts :
                submit_answers(text)
                    => LET answers == Split(text)
                           k == Min(Len(current_questions), Len(answers))
                       IN  /\ Len(current_questions) = SessionSize
                           /\ CurrentSet \subseteq Candidates(session_file)
                           /\ quiz_history'[1].total_questions = SessionSize
                           /\ quiz_history'[1].source_file = session_file
                           /\ Len(questions') = Len(questions)
                           /\ \A i \in 1..Len(questions) :
                                 IF PairedAt(questions[i].question, k) = 0
                                 THEN questions'[i] = questions[i]
                                 ELSE questions'[i].total_attempts
                                        = questions[i].total_attempts + 1]_vars

\* C14: in every step, every row of questions is still there afterwards, at
\* the same place, with the same text and source_file, and with
\* total_attempts and correct_attempts not below what they were.
C14_RowsPersist ==
    [][/\ Len(questions') >= Len(questions)
       /\ \A i \in 1..Len(questions) :
             /\ questions'[i].question = questions[i].question
             /\ questions'[i].source_file = questions[i].source_file
             /\ questions'[i].total_attempts >= questions[i].total_attempts
             /\ questions'[i].correct_attempts
                    >= questions[i].correct_attempts]_vars

\* C14 witness: a row updated twice, both times correctly, followed by a
\* row inserted later from another file and updated once
C14_Witness ==
    /\ Len(questions) = 2
    /\ questions[1].correct_attempts = 2
    /\ questions[2].source_file # questions[1].source_file
    /\ questions[2].total_attempts = 1

\* C15 (as claimed): no step changes or removes a row of quiz_history;
\* generate_quiz, insert_or_update_question, update_question_stats and
\* get_challenging_questions leave the table as it is; and in every state
\* every row has 0 <= correct_questions <= total_questions.
C15_HistoryAppendOnly ==
    /\ [][/\ Len(quiz_history') >= Len(quiz_history)
          /\ SubSeq(quiz_history', 1, Len(quiz_history)) = quiz_history
          /\ (\/ \E num_questions \in 1..MaxCount :
                    generate_quiz(num_questions)
              \/ \E question \in QuestionTexts, source_file \in FileArgs :
                    InsertCall(question, source_file)
              \/ \E question \in QuestionTexts, is_correct \in BOOLEAN :
                    UpdateCall(question, is_correct)
              \/ \E limit \in 0..MaxLimit : ChallengingCall(limit))
                => quiz_history' = quiz_history]_vars
    /\ [](\A i \in 1..Len(quiz_history) :
             /\ 0 <= quiz_history[i].correct_questions
             /\ quiz_history[i].correct_questions
                    <= quiz_history[i].total_questions)

\* the sentences re.findall matches in the text given to the extractor
Sentences == FindAll(content, 1)

\* C16: when generate_trivia_questions has returned, a matched sentence of
\* at most 4 words has none of its three questions in the result, one of
\* exactly 5 words has neither its Why nor its How question in it, every
\* question of the result is the What question of a matched sentence of
\* more than 4 words or the Why or How question of one of more than 5, and
\* a text that is empty or has no capital gives the empty set.
C16_Thresholds ==
    extract_pc = "done" =>
        /\ \A i \in 1..Len(Sentences) :
              LET sentence == Sentences[i]
                  w == WordCount(sentence)
              IN  /\ w <= 4 => WhatQuestion(sentence) \notin extracted
                  /\ w <= 5 => /\ WhyQuestion(sentence) \notin extracted
                               /\ HowQuestion(sentence) \notin extracted
        /\ \A q \in extracted :
              \E i \in 1..Len(Sentences) :
                 LET sentence == Sentences[i]
                     w == WordCount(sentence)
                 IN  \/ q = WhatQuestion(sentence) /\ w > 4
                     \/ q = WhyQuestion(sentence) /\ w > 5
                     \/ q = HowQuestion(sentence) /\ w > 5
        /\ (\A k \in 1..Len(content) : content[k] \notin Upper)
              => extracted = {}

\* C16 witness: a text with sentences of 4, 5 and 6 words; the What
\* question of the 5-word one and the Why question of the 6-word one are in
\* the result
C16_Witness ==
    /\ extract_pc = "done"
    /\ \E i, j, k \in 1..Len(Sentences) :
          /\ WordCount(Sentences[i]) = 4
          /\ WordCount(Sentences[j]) = 5
          /\ WordCount(Sentences[k]) = 6
          /\ WhatQuestion(Sentences[j]) \in extracted
          /\ WhyQuestion(Sentences[k]) \in extracted

\* q begins with the characters of prefix
StartsWith(q, prefix) ==
    Len(q) >= Len(prefix) /\ SubSeq(q, 1, Len(prefix)) = prefix

\* the first 10 sentences of more than minWords words, by position
FirstTen(minWords) ==
    {i \in 1..Len(Sentences) :
        /\ WordCount(Sentences[i]) > minWords
        /\ Cardinality({j \in 1..(i - 1) :
                           WordCount(Sentences[j]) > minWords}) < 10}

\* C17: when generate_trivia_questions has returned, the What questions of
\* the result are those of the first 10 sentences of more than 4 words in
\* the order of the text, the Why and the How questions those of the first
\* 10 sentences of more than 5 words; so there are at most 10 of each kind
\* and at most 30 questions.
C17_Truncation ==
    extract_pc = "done" =>
        LET whats == {q \in extracted :
                        StartsWith(q, <<"W", "h", "a", "t", " ">>)}
            whys == {q \in extracted :
                        StartsWith(q, <<"W", "h", "y", " ", "i", "s", " ">>)}
            hows == {q \in extracted :
                        StartsWith(q, <<"H", "o", "w", " ", "d", "o", "e",
                                        "s", " ">>)}
        IN  /\ whats = {WhatQuestion(Sentences[i]) : i \in FirstTen(4)}
            /\ whys = {WhyQuestion(Sentences[i]) : i \in FirstTen(5)}
            /\ hows = {HowQuestion(Sentences[i]) : i \in FirstTen(5)}
            /\ extracted = whats \cup whys \cup hows
            /\ Cardinality(whats) <= 10
            /\ Cardinality(whys) <= 10
            /\ Cardinality(hows) <= 10
            /\ Cardinality(extracted) <= 30

\* C17 witness: a text of 11 sentences, the result has 30 questions
C17_Witness ==
    /\ extract_pc = "done"
    /\ Len(Sentences) = 11
    /\ Cardinality(extracted) = 30

\* the sum of field f over the rows of a table
RECURSIVE SumOf(_, _)
SumOf(rows, f) ==
    IF rows = <<>> THEN 0 ELSE rows[1][f] + SumOf(Tail(rows), f)

C19_SessionInLedger ==
    /\ [](\A j \in 1..Len(current_questions) :
             HasQuestion(questions, current_questions[j]))
    /\ [][(Len(quiz_history') = Len(quiz_history) + 1)
            => \A text \in AnswerTexts :
                  submit_answers(text)
                      => LET k == Min(Len(current_questions),
                                      Len(Split(text)))
                         IN  /\ \A j \in 1..k :
                                   Row(questions', current_questions[j])
                                           .total_attempts
                                     = Row(questions, current_questions[j])
                                           .total_attempts + 1
                             /\ SumOf(questions', "total_attempts")
                                  = SumOf(questions, "total_attempts") + k]_vars

\* C19 witness: a quiz of two questions submitted with two blank answers:
\* each of the two rows has its attempt
C19_Witness ==
    /\ Len(current_questions) = 2
    /\ Len(quiz_history) = 1
    /\ quiz_history[1].correct_questions = 0
    /\ \A j \in 1..2 :
          /\ HasQuestion(questions, current_questions[j])
          /\ Row(questions, current_questions[j]).total_attempts = 1

\* C20: a generate_quiz that ends with the warning (no file selected) or
\* with the error of open() leaves questions, quiz_history and
\* current_questions as they were; so as long as a generated quiz has not
\* been submitted, current_questions, which a submit would score, holds the
\* questions that quiz was generated with.
C20_FailedGenerate ==
    /\ [][\A num_questions \in 1..MaxCount :
             (\/ generate_quiz_no_file(num_questions)
              \/ generate_quiz_unreadable(num_questions))
                 => /\ err' \in {"warning", "IOError"}
                    /\ questions' = questions
                    /\ quiz_history' = quiz_history
                    /\ current_questions' = current_questions]_vars
    /\ [](session_active
             => /\ Len(current_questions) = SessionSize
                /\ CurrentSet \subseteq Candidates(session_file))

\* C20 witness: open() has failed while a quiz of two questions generated
\* from a.txt is waiting for its answers
C20_Witness ==
    /\ err = "IOError"
    /\ session_active
    /\ session_file = "a.txt"
    /\ Len(current_questions) = 2
    /\ Len(questions) = 2
    /\ quiz_history = <<>>

=============================================================================
